---- MODULE Spec2Model ----
(***************************************************************************)
(* Model of backend/src/server.js: the Express application, its route      *)
(* handlers and, in full detail, the BPR estimator behind                  *)
(* POST /api/traffic/estimate.                                             *)
(*                                                                         *)
(* JavaScript numbers are IEEE-754 binary64 values.  They are modelled     *)
(* bit-exactly: a finite number is s * m * 2^e with a 53-bit significand   *)
(* m held as a natural number of 15-bit limbs, and every arithmetic        *)
(* operator rounds to nearest, ties to even, overflows to Infinity and     *)
(* underflows through the subnormals to zero, as the JavaScript operators  *)
(* do.  Intermediate values are handed from one definition to the next as  *)
(* parameters, so that each is computed once.                              *)
(***************************************************************************)
EXTENDS Integers, Sequences, FiniteSets

(***************************************************************************)
(* Natural numbers of arbitrary size: little-endian sequences of limbs in  *)
(* base 2^15, without leading zero limbs (zero is the empty sequence).     *)
(***************************************************************************)
LimbBits == 15
B == 2 ^ LimbBits

RECURSIVE BNorm(_)
BNorm(a) ==
  IF a = <<>> THEN a
  ELSE IF a[Len(a)] = 0 THEN BNorm(SubSeq(a, 1, Len(a) - 1)) ELSE a

BFromInt(n) ==
  BNorm(<<n % B, (n \div B) % B, n \div (B * B)>>)

BLimb(a, i) == IF i <= Len(a) THEN a[i] ELSE 0

RECURSIVE BAddRec(_, _, _, _)
BAddRec(a, b, i, c) ==
  IF i > Len(a) /\ i > Len(b)
  THEN (IF c = 0 THEN <<>> ELSE <<c>>)
  ELSE <<(BLimb(a, i) + BLimb(b, i) + c) % B>>
       \o BAddRec(a, b, i + 1, (BLimb(a, i) + BLimb(b, i) + c) \div B)

BAdd(a, b) ==
  IF a = <<>> THEN b ELSE IF b = <<>> THEN a ELSE BAddRec(a, b, 1, 0)

\* a - b for a >= b
RECURSIVE BSubRec(_, _, _, _)
BSubRec(a, b, i, c) ==
  IF i > Len(a) THEN <<>>
  ELSE IF a[i] - BLimb(b, i) - c < 0
  THEN <<a[i] - BLimb(b, i) - c + B>> \o BSubRec(a, b, i + 1, 1)
  ELSE <<a[i] - BLimb(b, i) - c>> \o BSubRec(a, b, i + 1, 0)

BSub(a, b) == IF b = <<>> THEN a ELSE BNorm(BSubRec(a, b, 1, 0))

RECURSIVE BMulLimbRec(_, _, _, _)
BMulLimbRec(a, d, i, c) ==
  IF i > Len(a) THEN (IF c = 0 THEN <<>> ELSE <<c>>)
  ELSE <<(a[i] * d + c) % B>> \o BMulLimbRec(a, d, i + 1, (a[i] * d + c) \div B)

BMulLimb(a, d) ==
  IF d = 0 \/ a = <<>> THEN <<>> ELSE BMulLimbRec(a, d, 1, 0)

\* row + B * rest
BMulAcc(row, rest) ==
  IF rest = <<>> THEN row
  ELSE IF row = <<>> THEN <<0>> \o rest
  ELSE BAddRec(row, <<0>> \o rest, 1, 0)

RECURSIVE BMulRec(_, _, _)
BMulRec(a, b, j) ==
  IF j > Len(b) THEN <<>>
  ELSE BMulAcc(BMulLimb(a, b[j]), BMulRec(a, b, j + 1))

BMul(a, b) == IF a = <<>> \/ b = <<>> THEN <<>> ELSE BMulRec(a, b, 1)

\* -1, 0, 1 as a < b, a = b, a > b
RECURSIVE BCmpRec(_, _, _)
BCmpRec(a, b, i) ==
  IF i = 0 THEN 0
  ELSE IF a[i] < b[i] THEN -1
  ELSE IF a[i] > b[i] THEN 1
  ELSE BCmpRec(a, b, i - 1)

BCmp(a, b) ==
  IF a = <<>> \/ b = <<>> THEN (IF a = b THEN 0 ELSE IF a = <<>> THEN -1 ELSE 1)
  ELSE IF Len(a) < Len(b) THEN -1
  ELSE IF Len(a) > Len(b) THEN 1
  ELSE BCmpRec(a, b, Len(a))

RECURSIVE IntBits(_)
IntBits(n) == IF n = 0 THEN 0 ELSE 1 + IntBits(n \div 2)

\* the number of bits of a (0 for zero)
BBits(a) ==
  IF a = <<>> THEN 0 ELSE LimbBits * (Len(a) - 1) + IntBits(a[Len(a)])

\* bit i (from 0) of a
BBit(a, i) == (BLimb(a, (i \div LimbBits) + 1) \div (2 ^ (i % LimbBits))) % 2

\* a * 2^k
BShl(a, k) ==
  IF a = <<>> THEN <<>>
  ELSE [i \in 1..(k \div LimbBits) |-> 0] \o BMulLimbRec(a, 2 ^ (k % LimbBits), 1, 0)

\* floor(a / 2^k)
BShr(a, k) ==
  IF Len(a) <= k \div LimbBits THEN <<>>
  ELSE BNorm([i \in 1..(Len(a) - (k \div LimbBits)) |->
                (a[(k \div LimbBits) + i] \div (2 ^ (k % LimbBits)))
                + (BLimb(a, (k \div LimbBits) + i + 1) % (2 ^ (k % LimbBits)))
                  * (2 ^ (LimbBits - (k % LimbBits)))])

\* whether the k low bits of a are all zero
BLowZero(a, k) ==
  /\ \A i \in 1..(k \div LimbBits) : BLimb(a, i) = 0
  /\ BLimb(a, (k \div LimbBits) + 1) % (2 ^ (k % LimbBits)) = 0

BOdd(a) == BLimb(a, 1) % 2 = 1

\* the largest d in 0..dhat with d * b <= r, where dhat exceeds it by at most 2
RECURSIVE BDigitFix(_, _, _)
BDigitFix(r, b, dhat) ==
  IF BCmp(BMulLimb(b, dhat), r) <= 0 THEN dhat ELSE BDigitFix(r, b, dhat - 1)

BDigitEst(est) == IF est > B - 1 THEN B - 1 ELSE est

\* floor(r / b) for r < b * B and the top limb of b at least B / 2
BDigit(r, b) ==
  IF Len(r) < Len(b) THEN 0
  ELSE BDigitFix(r, b,
         BDigitEst((BLimb(r, Len(b) + 1) * B + BLimb(r, Len(b))) \div b[Len(b)]))

\* one step of the long division: the digit d of the running remainder r
BDivDigit(b, q, r, d) ==
  IF d = 0 THEN <<BNorm(<<0>> \o q), r>>
  ELSE <<<<d>> \o q, BSub(r, BMulLimb(b, d))>>

BDivStep(b, q, r) ==
  IF r = <<>> THEN <<BNorm(<<0>> \o q), r>>
  ELSE BDivDigit(b, q, r, BDigit(r, b))

BDivNext(limb, b, up) ==
  IF up = <<>> THEN up ELSE BDivStep(b, up[1], BNorm(<<limb>> \o up[2]))

\* long division, one limb of a at a time from the top: <<quotient, remainder>>
RECURSIVE BDivRec(_, _, _)
BDivRec(a, b, i) ==
  IF i > Len(a) THEN <<(<<>>), (<<>>)>>
  ELSE BDivNext(a[i], b, BDivRec(a, b, i + 1))

BDivShift(a, b, s) == BDivRec(BShl(a, s), BShl(b, s), 1)

BDivUnshift(qr, s) == <<qr[1], BShr(qr[2], s)>>

\* <<floor(a / b), a mod b>> for b > 0
BDivMod(a, b) ==
  BDivUnshift(BDivShift(a, b, LimbBits - IntBits(b[Len(b)])),
              LimbBits - IntBits(b[Len(b)]))

\* floor(sqrt(a)) by Newton's iteration from above
RECURSIVE BSqrtRec(_, _)
BSqrtNext(a, x, q) ==
  IF BCmp(q, x) >= 0 THEN x ELSE BSqrtRec(a, BShr(BAdd(x, q), 1))

BSqrtRec(a, x) == IF x = <<>> THEN x ELSE BSqrtNext(a, x, BDivMod(a, x)[1])

BSqrt(a) ==
  IF a = <<>> THEN <<>> ELSE BSqrtRec(a, BShl(<<1>>, (BBits(a) + 1) \div 2))

(***************************************************************************)
(* JavaScript values.  A Number is NaN, an infinity or s * m * 2^e; the    *)
(* other kinds are what a JSON body can carry besides numbers (a string,   *)
(* null) and the undefined of a missing property.                          *)
(***************************************************************************)
Precision == 52 + 1
EMin == 0 - 1022 - (Precision - 1)
EMax == 1023 - (Precision - 1)

NaN == [k |-> "nan", s |-> 1, m |-> <<>>, e |-> EMin]
Inf(s) == [k |-> "inf", s |-> s, m |-> <<>>, e |-> EMin]
Zero(s) == [k |-> "fin", s |-> s, m |-> <<>>, e |-> EMin]
Undefined == [k |-> "undefined", s |-> 1, m |-> <<>>, e |-> EMin]
JNull == [k |-> "null", s |-> 1, m |-> <<>>, e |-> EMin]
JString == [k |-> "string", s |-> 1, m |-> <<>>, e |-> EMin]

IsNumber(v) == v.k \in {"nan", "inf", "fin"}
IsZero(v) == v.k = "fin" /\ v.m = <<>>

Pack(s, m, e) ==
  IF m = <<>> THEN Zero(s)
  ELSE IF e > EMax THEN Inf(s)
  ELSE [k |-> "fin", s |-> s, m |-> m, e |-> e]

\* a carry out of the top of the significand moves the exponent
RoundCarry(s, q, e) ==
  IF BBits(q) > Precision THEN Pack(s, BShr(q, 1), e + 1) ELSE Pack(s, q, e)

\* q with the bits below it cut off: half is the first of them, rest says whether
\* any later one is set
RoundEven(s, q, e, half, rest) ==
  IF half /\ (rest \/ BOdd(q)) THEN RoundCarry(s, BAdd(q, <<1>>), e)
  ELSE Pack(s, q, e)

\* at exponent e1, the exponent of the double's last place
RoundAt(s, M, E, sticky, e1) ==
  IF e1 <= E THEN Pack(s, BShl(M, E - e1), e1)
  ELSE RoundEven(s, BShr(M, e1 - E), e1, BBit(M, e1 - E - 1) = 1,
                 sticky \/ ~BLowZero(M, e1 - E - 1))

\* the double nearest to s * (M + f) * 2^E, ties to even, where 0 <= f < 1 and
\* sticky says f > 0 (then M has at least Precision + 2 bits)
Round(s, M, E, sticky) ==
  IF M = <<>> THEN Zero(s)
  ELSE RoundAt(s, M, E, sticky,
               IF E + BBits(M) - Precision < EMin THEN EMin
               ELSE E + BBits(M) - Precision)

RoundQuotient(s, qr, E) == Round(s, qr[1], E, qr[2] # <<>>)

\* n shifted left by t bits so that the quotient has Precision + 2 bits or more
QuotientShifted(s, n, d, E, t) ==
  RoundQuotient(s, BDivMod(BShl(n, t), d), E - t)

\* the double nearest to s * (n * 2^E) / d, for n, d > 0
Quotient(s, n, d, E) ==
  QuotientShifted(s, n, d, E,
                  IF BBits(n) > BBits(d) + Precision + 2 THEN 0
                  ELSE BBits(d) + Precision + 2 - BBits(n))

\* the Number a decimal literal n / d denotes (n, d naturals, d > 0)
FromRatio(s, n, d) == IF n = <<>> THEN Zero(s) ELSE Quotient(s, n, d, 0)

\* the Number of an integer 0 < n < 2^15
Num(n) == Pack(1, BShl(<<n>>, Precision - IntBits(n)), IntBits(n) - Precision)
Dec(n, d) == FromRatio(1, BFromInt(n), BFromInt(d))
Neg(v) == [v EXCEPT !.s = 0 - v.s]
Abs(v) == [v EXCEPT !.s = 1]
One == Num(1)

\* Number.MAX_VALUE and Number.MIN_VALUE
MaxValue == Pack(1, BSub(BShl(<<1>>, Precision), <<1>>), EMax)
MinValue == Pack(1, <<1>>, EMin)

\* comparison of the magnitudes of finite numbers: -1, 0, 1
MagCmp(x, y) ==
  IF x.e < y.e THEN -1 ELSE IF x.e > y.e THEN 1 ELSE BCmp(x.m, y.m)

\* x < y as JavaScript evaluates it on two Numbers
Lt(x, y) ==
  IF x.k = "nan" \/ y.k = "nan" THEN FALSE
  ELSE IF IsZero(x) /\ IsZero(y) THEN FALSE
  ELSE IF x.s # y.s THEN x.s < y.s
  ELSE IF x.k = "inf" THEN (y.k # "inf" /\ x.s = -1)
  ELSE IF y.k = "inf" THEN y.s = 1
  ELSE MagCmp(x, y) = 0 - x.s

Eq(x, y) ==
  IF x.k = "nan" \/ y.k = "nan" THEN FALSE
  ELSE (IsZero(x) /\ IsZero(y)) \/ x = y

\* x <= y
Le(x, y) == Eq(x, y) \/ Lt(x, y)

\* x / y
Div(x, y) ==
  IF x.k = "nan" \/ y.k = "nan" THEN NaN
  ELSE IF x.k = "inf" THEN (IF y.k = "inf" THEN NaN ELSE Inf(x.s * y.s))
  ELSE IF y.k = "inf" THEN Zero(x.s * y.s)
  ELSE IF y.m = <<>> THEN (IF x.m = <<>> THEN NaN ELSE Inf(x.s * y.s))
  ELSE IF x.m = <<>> THEN Zero(x.s * y.s)
  ELSE Quotient(x.s * y.s, x.m, y.m, x.e - y.e)

\* x * y
Mul(x, y) ==
  IF x.k = "nan" \/ y.k = "nan" THEN NaN
  ELSE IF x.k = "inf" THEN (IF IsZero(y) THEN NaN ELSE Inf(x.s * y.s))
  ELSE IF y.k = "inf" THEN (IF IsZero(x) THEN NaN ELSE Inf(x.s * y.s))
  ELSE Round(x.s * y.s, BMul(x.m, y.m), x.e + y.e, FALSE)

\* the exponent gap beyond which the smaller operand of a sum is less than a
\* quarter of the spacing of the doubles around the larger one
Absorb == Precision + 2 + LimbBits

\* sx * xm * 2^E + sy * ym * 2^E, where c compares xm with ym
AddMagnitudes(sx, xm, sy, ym, E, c) ==
  IF sx # sy /\ c = 0 THEN Zero(1)
  ELSE Round(IF sx = sy \/ c > 0 THEN sx ELSE sy,
             IF sx = sy THEN BAdd(xm, ym)
             ELSE IF c > 0 THEN BSub(xm, ym) ELSE BSub(ym, xm),
             E, FALSE)

AddAligned(sx, xm, sy, ym, E) ==
  IF xm = <<>> THEN Zero(1)
  ELSE AddMagnitudes(sx, xm, sy, ym, E, BCmp(xm, ym))

\* x + y
Add(x, y) ==
  IF x.k = "nan" \/ y.k = "nan" THEN NaN
  ELSE IF x.k = "inf" THEN (IF y.k = "inf" /\ y.s # x.s THEN NaN ELSE x)
  ELSE IF y.k = "inf" THEN y
  ELSE IF y.m = <<>> THEN (IF x.m = <<>> /\ x.s # y.s THEN Zero(1) ELSE x)
  ELSE IF x.m = <<>> THEN y
  ELSE IF x.e - y.e > Absorb THEN x
  ELSE IF y.e - x.e > Absorb THEN y
  ELSE AddAligned(x.s, BShl(x.m, IF x.e < y.e THEN 0 ELSE x.e - y.e),
                  y.s, BShl(y.m, IF x.e < y.e THEN y.e - x.e ELSE 0),
                  IF x.e < y.e THEN x.e ELSE y.e)

\* x - y
Sub(x, y) == Add(x, Neg(y))

\* M^(2^j) for a small j
BSquare(h) == IF h = <<>> THEN h ELSE BMul(h, h)

RECURSIVE BPowSq(_, _)
BPowSq(M, j) == IF j = 0 THEN M ELSE BSquare(BPowSq(M, j - 1))

BRootJoin(up, inexact) == <<up[1], up[2] \/ inexact>>

\* <<floor of the 2^k-th root of M, whether the root is not an integer>>
RECURSIVE BRoot(_, _)
BRootStep(M, k, r) ==
  IF r = <<>> THEN <<r, FALSE>>
  ELSE BRootJoin(BRoot(r, k - 1), BMul(r, r) # M)

BRoot(M, k) == IF k = 0 THEN <<M, FALSE>> ELSE BRootStep(M, k, BSqrt(M))

\* whether the finite y > 0 is a power of two, and which
IsPowerOfTwo(y) == BLowZero(y.m, BBits(y.m) - 1)
Log2(y) == y.e + BBits(y.m) - 1

\* the exponents 2^j for which the power of a finite number is computed digit by
\* digit: squarings up to 2^MaxSquarings, roots down to 2^-MaxSquarings
MaxSquarings == 3
\* below 2^-Flat the power of every finite positive number rounds to 1
Flat == Precision + 11

\* the 2^k-th root of m * 2^e, with m shifted left by t bits so that the root has
\* Precision + 2 bits and the exponent e - t is a multiple of 2^k
RoundRoot(r, E) == Round(1, r[1], E, r[2])

RootShifted(m, e, k, t) ==
  RoundRoot(BRoot(BShl(m, t), k), (e - t) \div (2 ^ k))

RootNeed(m, e, k, need) == RootShifted(m, e, k, need + ((e - need) % (2 ^ k)))

\* x^(2^j) for finite x > 0, correctly rounded
PowPos(x, j) ==
  CASE x = One -> One
    [] x # One /\ j >= 0 /\ j <= MaxSquarings ->
         Round(1, BPowSq(x.m, j), x.e * (2 ^ j), FALSE)
    [] x # One /\ j < 0 /\ 0 - j <= MaxSquarings ->
         RootNeed(x.m, x.e, 0 - j, (Precision + 2) * (2 ^ (0 - j)) - BBits(x.m))
    [] x # One /\ 0 - j >= Flat -> One

\* Math.pow(x, y) for x >= 0 (or NaN) and y >= 0
PowUp(x, y) ==
  IF y.k = "nan" THEN NaN
  ELSE IF IsZero(y) THEN One
  ELSE IF x.k = "nan" THEN NaN
  ELSE IF y.k = "inf" THEN
    (IF x.k = "fin" /\ MagCmp(x, One) = 0 THEN NaN
     ELSE IF x.k = "inf" \/ MagCmp(x, One) > 0 THEN Inf(1)
     ELSE Zero(1))
  ELSE IF x.k = "inf" \/ IsZero(x) THEN Abs(x)
  ELSE CASE x.s = 1 /\ IsPowerOfTwo(y) -> PowPos(x, Log2(y))

\* Math.pow(x, y) on Numbers, for the exponents the estimator passes: 0,
\* Infinity, NaN or a power of two (1 / beta for a power of two beta)
Pow(x, y) == CASE y.k = "nan" \/ y.s = 1 -> PowUp(x, y)

\* the integer nearest to a * 2^(-k), ties upwards (k > 0)
BRoundShift(a, k) ==
  IF k > BBits(a) + 1 THEN <<>>
  ELSE BShr(BAdd(a, BShl(<<1>>, k - 1)), k)

\* Math.round(x) for x >= 0 or not finite: the nearest integer, ties upwards
MathRound(x) ==
  IF x.k # "fin" \/ x.e >= 0 \/ x.m = <<>> THEN x
  ELSE CASE x.s = 1 -> Round(1, BRoundShift(x.m, 0 - x.e), 0, FALSE)

Ten(d) == BFromInt(10 ^ d)
\* 10^21, from which toFixed answers as toString does
BigFixed == BMul(Ten(7), BMul(Ten(7), Ten(7)))

\* Number(x.toFixed(d)): the decimal with d fraction digits nearest to x (ties
\* away from zero), read back as a Number
ToFixed(x, d) ==
  IF x.k # "fin" \/ x.m = <<>> THEN x
  ELSE IF x.e > Absorb THEN x
  ELSE IF x.e >= 0 /\ BCmp(BShl(x.m, x.e), BigFixed) >= 0 THEN x
  ELSE FromRatio(x.s,
                 IF x.e >= 0 THEN BShl(BMul(x.m, Ten(d)), x.e)
                 ELSE BRoundShift(BMul(x.m, Ten(d)), 0 - x.e),
                 Ten(d))

(***************************************************************************)
(* POST /api/traffic/estimate                                              *)
(***************************************************************************)
AllFieldsMsg == "All fields must be positive numbers."
FreeFlowNote == "Free flow or better than free flow."
BadBaseMsg == "Invalid base value, check parameters."
None == ""

StatusOk == 200
StatusBadRequest == 400
StatusNotFound == 404
StatusServerError == 500

Body(T, Tff, L, qpc, alpha, beta) ==
  [T_min |-> T, Tff_min |-> Tff, L_km |-> L, qpc |-> qpc, alpha |-> alpha,
   beta |-> beta]

\* the test with v < 0 for v <= 0: a zero passes
InvalidStrict(v) == ~IsNumber(v) \/ Lt(v, Zero(1))

\* v => typeof v !== "number" || v <= 0
Invalid(v) == ~IsNumber(v) \/ Le(v, Zero(1))

\* [T_min, Tff_min, L_km, qpc, alpha, beta].some(...)
SomeInvalid(b) ==
  \E v \in {b.T_min, b.Tff_min, b.L_km, b.qpc, b.alpha, b.beta} : Invalid(v)

\* JSON.stringify of a Number inside res.json: NaN and the infinities become
\* null, -0 becomes 0
Json(v) ==
  IF v.k = "fin" THEN (IF v.m = <<>> THEN Zero(1) ELSE v) ELSE JNull

\* a response: its status and the properties of its JSON body (Undefined for a
\* property the body does not have)
Reply(status, error, q, N, Tratio, note) ==
  [status |-> status, error |-> error, q_veh_per_h |-> q, N_veh |-> N,
   Tratio |-> Tratio, note |-> note]

\* the constants of the handler's computation (Undefined before their line)
NoLocals ==
  [T_h |-> Undefined, Tff_h |-> Undefined, Tratio |-> Undefined,
   base |-> Undefined, q |-> Undefined, N |-> Undefined]

\* the comparison with < for <=: equal times are not free flow
FreeFlowStrict(b) == Lt(b.T_min, b.Tff_min)

\* T_min <= Tff_min
FreeFlow(b) == Le(b.T_min, b.Tff_min)

\* base < 0
NegativeBase(l) == Lt(l.base, Zero(1))

\* res.json({ q_veh_per_h: Number(q.toFixed(2)), N_veh: Math.round(N),
\*            Tratio: Number(Tratio.toFixed(3)) })
Computed(l) ==
  <<Reply(StatusOk, None, Json(ToFixed(l.q, 2)), Json(MathRound(l.N)),
          Json(ToFixed(l.Tratio, 3)), None), l>>

\* the vehicle count over the free-flow time for the observed time
VehicleCountFree(l) == Computed([l EXCEPT !.N = Mul(l.q, l.Tff_h)])

\* const N = q * T_h
VehicleCount(l) == Computed([l EXCEPT !.N = Mul(l.q, l.T_h)])

\* the capacity divided by the power for multiplied by it
FlowDivided(b, l) ==
  VehicleCount([l EXCEPT !.q = Div(b.qpc, Pow(l.base, Div(One, b.beta)))])

\* const q = qpc * Math.pow(base, 1 / beta)
Flow(b, l) ==
  VehicleCount([l EXCEPT !.q = Mul(b.qpc, Pow(l.base, Div(One, b.beta)))])

\* if (base < 0) return res.status(400)...
BaseGuard(b, l) ==
  IF NegativeBase(l)
  THEN <<Reply(StatusBadRequest, BadBaseMsg, Undefined, Undefined, Undefined,
               None), l>>
  ELSE Flow(b, l)

\* the operands of the subtraction swapped
BaseSwapped(b, l) ==
  BaseGuard(b, [l EXCEPT !.base = Div(Sub(One, l.Tratio), b.alpha)])

\* const base = (Tratio - 1) / alpha
Base(b, l) == BaseGuard(b, [l EXCEPT !.base = Div(Sub(l.Tratio, One), b.alpha)])

\* const Tratio = T_h / Tff_h
Ratio(b, l) == Base(b, [l EXCEPT !.Tratio = Div(l.T_h, l.Tff_h)])

\* const T_h = T_min / 60; const Tff_h = Tff_min / 60
Hours(b) ==
  Ratio(b, [NoLocals EXCEPT !.T_h = Div(b.T_min, Num(60)),
                            !.Tff_h = Div(b.Tff_min, Num(60))])

\* the handler, for the body express.json() parsed: <<the response, the
\* constants it computed>>.  No statement of the try block throws on a body
\* that is an object, so the catch (status 500) is not taken.
Estimate(b) ==
  IF SomeInvalid(b)
  THEN <<Reply(StatusBadRequest, AllFieldsMsg, Undefined, Undefined, Undefined,
               None), NoLocals>>
  ELSE IF FreeFlow(b)
  THEN <<Reply(StatusOk, None, Zero(1), Zero(1), Undefined, FreeFlowNote),
         NoLocals>>
  ELSE Hours(b)

(***************************************************************************)
(* Request bodies.  JSON.parse yields no NaN; a literal such as 1e999      *)
(* yields Infinity.                                                        *)
(***************************************************************************)
TValues ==
  {Undefined, JString, Neg(Num(5)), Zero(1), Num(30), Num(57), Num(60),
   Pack(1, <<2>>, EMin), MaxValue, Inf(1)}
TffValues == {Undefined, JNull, Zero(1), Num(30), Num(48), MinValue, Inf(1)}
LValues == {Undefined, Num(5), Inf(1)}
QpcValues == {JString, Num(1000), Dec(1, 1000), MaxValue}
AlphaValues == {Zero(1), Dec(15, 100), One, Inf(1)}
BetaValues == {Undefined, Num(4), One, MinValue, Inf(1)}

Bodies ==
  {Body(T, Tff, L, qpc, alpha, beta) :
     T \in TValues, Tff \in TffValues, L \in LValues, qpc \in QpcValues,
     alpha \in AlphaValues, beta \in BetaValues}

\* the body {}
NoBody == Body(Undefined, Undefined, Undefined, Undefined, Undefined, Undefined)

\* the bodies of the runs that serve every route
FewBodies ==
  {Body(T, Tff, Num(5), qpc, Dec(15, 100), One) :
     T \in {Num(45), Num(57), Num(60)}, Tff \in {Num(30), Num(48)},
     qpc \in {Num(1000), Dec(1, 1000)}}
  \cup {Body(Num(60), Num(30), Num(7), Num(1000), Dec(15, 100), One),
        Body(Num(60), Num(30), Num(5), Num(1000), One, MinValue), NoBody}

(***************************************************************************)
(* The server.  Express runs one handler at a time, and a synchronous      *)
(* handler to its response: an exchange is received, handled and finished  *)
(* before the next one starts.  The handlers of /api/proxy and             *)
(* /api/directions give way at their await, and answer when their fetch    *)
(* settles.                                                                *)
(***************************************************************************)
EstimateRoute == "/api/traffic/estimate"
DataRoutes == {"/api/poi", "/api/cctv", "/api/baseline"}
InsightsRoute == "/api/insights"
ProxyRoute == "/api/proxy"
DirectionsRoute == "/api/directions"
VideoRoute == "/api/video-report"

NoKeyMsg == "GOOGLE_MAPS_API_KEY not set."
NoEndsMsg == "origin & destination required"
NoRouteMsg == "No route found"
NoFileMsg == "No file uploaded"
UpstreamMsg == "e.message"

\* the files the uploads directory holds, and the fetches awaited, in the runs
\* explored
MaxUploads == 1
MaxFetches == 1

NoReply == Reply(0, None, Undefined, Undefined, Undefined, None)
Answer(status, error) == Reply(status, error, Undefined, Undefined, Undefined, None)

NoFirst == [set |-> FALSE, req |-> NoBody, res |-> NoReply]

VARIABLES
  phase,     \* "idle", "received" (the handler is about to run), "responded"
  route,     \* the route of the exchange under way
  req,       \* req.body of the estimate request under way
  res,       \* the response of the exchange under way
  loc,       \* the constants the estimate handler computed
  uploads,   \* the number of files in uploadsDir
  fetching,  \* per route, the handlers waiting for their fetch
  apiKey,    \* whether process.env.GOOGLE_MAPS_API_KEY is set
  first      \* history: an earlier estimate exchange, its body and response

vars == <<phase, route, req, res, loc, uploads, fetching, apiKey, first>>

Init ==
  /\ phase = "idle"
  /\ route = None
  /\ req = NoBody
  /\ res = NoReply
  /\ loc = NoLocals
  /\ uploads = 0
  /\ fetching = [r \in {ProxyRoute, DirectionsRoute} |-> 0]
  /\ apiKey \in BOOLEAN
  /\ first = NoFirst

\* a response to a request that no handler computed anything for
Respond(r, reply) ==
  /\ phase' = "responded"
  /\ route' = r
  /\ res' = reply
  /\ UNCHANGED <<req, loc>>

\* express.json() has parsed the body of a POST /api/traffic/estimate
Receive(bodies) ==
  /\ phase = "idle"
  /\ \E b \in bodies : req' = b
  /\ phase' = "received"
  /\ route' = EstimateRoute
  /\ UNCHANGED <<res, loc, uploads, fetching, apiKey, first>>

\* a handler that fails while a handler of /api/proxy waits for its fetch
HandleBusy ==
  /\ phase = "received"
  /\ LET out == Estimate(req)
     IN /\ res' = IF fetching[ProxyRoute] > 0
                  THEN Answer(StatusServerError, UpstreamMsg) ELSE out[1]
        /\ loc' = out[2]
  /\ phase' = "responded"
  /\ UNCHANGED <<route, req, uploads, fetching, apiKey, first>>

\* the handler of POST /api/traffic/estimate
Handle ==
  /\ phase = "received"
  /\ LET out == Estimate(req) IN res' = out[1] /\ loc' = out[2]
  /\ phase' = "responded"
  /\ UNCHANGED <<route, req, uploads, fetching, apiKey, first>>

\* the response is sent; the request, the response and the handler's constants
\* are gone
Finish ==
  /\ phase = "responded"
  /\ phase' = "idle"
  /\ route' = None
  /\ req' = NoBody
  /\ res' = NoReply
  /\ loc' = NoLocals
  /\ UNCHANGED <<uploads, fetching, apiKey, first>>

\* GET /api/poi, /api/cctv, /api/baseline
GetData(r) ==
  /\ phase = "idle"
  /\ Respond(r, Answer(StatusOk, None))
  /\ UNCHANGED <<uploads, fetching, apiKey, first>>

\* GET /api/insights
Insights ==
  /\ phase = "idle"
  /\ Respond(InsightsRoute, Answer(StatusOk, None))
  /\ UNCHANGED <<uploads, fetching, apiKey, first>>

\* a handler starts to wait for its fetch
Await(r) ==
  /\ fetching[ProxyRoute] + fetching[DirectionsRoute] < MaxFetches
  /\ fetching' = [fetching EXCEPT ![r] = @ + 1]
  /\ UNCHANGED <<phase, route, req, res, loc>>

\* GET /api/proxy, up to its await
Proxy(url) ==
  /\ phase = "idle"
  /\ IF url THEN Await(ProxyRoute)
     ELSE Respond(ProxyRoute, Answer(StatusBadRequest, None)) /\ UNCHANGED fetching
  /\ UNCHANGED <<uploads, apiKey, first>>

\* GET /api/proxy, from its await: the status of the page fetched, or 500 when the
\* fetch failed
ProxyDone(status) ==
  /\ phase = "idle"
  /\ fetching[ProxyRoute] > 0
  /\ fetching' = [fetching EXCEPT ![ProxyRoute] = @ - 1]
  /\ Respond(ProxyRoute, Answer(status, None))
  /\ UNCHANGED <<uploads, apiKey, first>>

\* GET /api/directions, up to its await
Directions(ends) ==
  /\ phase = "idle"
  /\ IF ~apiKey
     THEN Respond(DirectionsRoute, Answer(StatusBadRequest, NoKeyMsg))
          /\ UNCHANGED fetching
     ELSE IF ~ends
     THEN Respond(DirectionsRoute, Answer(StatusBadRequest, NoEndsMsg))
          /\ UNCHANGED fetching
     ELSE Await(DirectionsRoute)
  /\ UNCHANGED <<uploads, apiKey, first>>

\* GET /api/directions, from its await: no leg, a leg, or a fetch that failed
DirectionsDone(outcome) ==
  /\ phase = "idle"
  /\ fetching[DirectionsRoute] > 0
  /\ fetching' = [fetching EXCEPT ![DirectionsRoute] = @ - 1]
  /\ Respond(DirectionsRoute,
             CASE outcome = "none" -> Answer(StatusNotFound, NoRouteMsg)
               [] outcome = "leg" -> Answer(StatusOk, None)
               [] outcome = "error" -> Answer(StatusServerError, UpstreamMsg))
  /\ UNCHANGED <<uploads, apiKey, first>>

\* POST /api/video-report: multer has stored the file, if the request has one
VideoReport(file) ==
  /\ phase = "idle"
  /\ IF file
     THEN /\ uploads < MaxUploads
          /\ uploads' = uploads + 1
          /\ Respond(VideoRoute, Answer(StatusOk, None))
     ELSE /\ Respond(VideoRoute, Answer(StatusBadRequest, NoFileMsg))
          /\ UNCHANGED uploads
  /\ UNCHANGED <<fetching, apiKey, first>>

\* history: the estimate exchange under way is kept for comparison with a later
\* one
Remember ==
  /\ phase = "responded"
  /\ route = EstimateRoute
  /\ ~first.set
  /\ first' = [set |-> TRUE, req |-> req, res |-> res]
  /\ UNCHANGED <<phase, route, req, res, loc, uploads, fetching, apiKey>>

\* the estimate route alone, over the wide range of bodies
Next == Receive(Bodies) \/ Handle \/ Finish
Spec == Init /\ [][Next]_vars

\* every route, over the few bodies
NextServer ==
  \/ Receive(FewBodies)
  \/ Handle
  \/ Finish
  \/ \E r \in DataRoutes : GetData(r)
  \/ Insights
  \/ \E url \in BOOLEAN : Proxy(url)
  \/ \E status \in {StatusOk, StatusNotFound, StatusServerError} : ProxyDone(status)
  \/ \E ends \in BOOLEAN : Directions(ends)
  \/ \E outcome \in {"none", "leg", "error"} : DirectionsDone(outcome)
  \/ \E file \in BOOLEAN : VideoReport(file)
  \/ Remember
SpecServer == Init /\ [][NextServer]_vars

(***************************************************************************)
(* Properties                                                              *)
(***************************************************************************)
Fields(b) == {b.T_min, b.Tff_min, b.L_km, b.qpc, b.alpha, b.beta}

\* what a value can be: absent, not a number, a number that is not positive, a
\* positive one, a negative one, a finite one, an integer
Missing(v) == v.k = "undefined"
NotANumber(v) == v.k \in {"null", "string"}
NotPositive(v) ==
  v.k \in {"fin", "inf"} /\ (v.s = -1 \/ (v.k = "fin" /\ v.m = <<>>))
Positive(v) == v.k \in {"fin", "inf"} /\ v.s = 1 /\ ~(v.k = "fin" /\ v.m = <<>>)
Negative(v) == v.k \in {"fin", "inf"} /\ v.s = -1 /\ ~(v.k = "fin" /\ v.m = <<>>)
Finite(v) == v.k = "fin"
NotFinite(v) == v.k \in {"inf", "nan"}
IsInteger(v) ==
  v.k = "fin" /\ (v.m = <<>> \/ v.e >= 0 \/ BLowZero(v.m, 0 - v.e))

AllPositive(b) == \A v \in Fields(b) : Positive(v)
AllFinitePositive(b) == \A v \in Fields(b) : Finite(v) /\ Positive(v)

\* the estimate handler has answered the request req
Answered == phase = "responded" /\ route = EstimateRoute
\* and an earlier estimate exchange is remembered
Pair == Answered /\ first.set

InvalidInput == Answer(StatusBadRequest, AllFieldsMsg)
FreeFlowResult == Reply(StatusOk, None, Zero(1), Zero(1), Undefined, FreeFlowNote)

\* C1: a request with a field that is missing, not a number or <= 0 is answered
\* with status 400 and "All fields must be positive numbers.", never with a
\* result and never with a server error
C1_Rejected ==
  (Answered /\ \E v \in Fields(req) : Missing(v) \/ NotANumber(v) \/ NotPositive(v))
    => res = InvalidInput

\* a rejected request whose T_min <= Tff_min, with a field missing
C1_Witness ==
  /\ Answered
  /\ Missing(req.beta)
  /\ \A v \in Fields(req) \ {req.beta} : Positive(v)
  /\ Le(req.T_min, req.Tff_min)
  /\ res = InvalidInput

\* C2: six numbers > 0 with T_min <= Tff_min are answered with exactly
\* { q_veh_per_h: 0, N_veh: 0, note }, status 200 and no Tratio
C2_FreeFlow ==
  (Answered /\ AllPositive(req) /\ Le(req.T_min, req.Tff_min))
    => res = FreeFlowResult

\* a free-flow answer for T_min below Tff_min
C2_Witness ==
  /\ Answered
  /\ AllPositive(req)
  /\ Lt(req.T_min, req.Tff_min)
  /\ res = FreeFlowResult

\* C3: six finite numbers > 0 are answered with status 200, q_veh_per_h >= 0,
\* an integer N_veh >= 0 and, when present, Tratio >= 1
C3_Total ==
  (Answered /\ AllFinitePositive(req))
    => /\ res.status = StatusOk
       /\ Finite(res.q_veh_per_h) /\ Le(Zero(1), res.q_veh_per_h)
       /\ IsInteger(res.N_veh) /\ Le(Zero(1), res.N_veh)
       /\ res.Tratio # Undefined
            => (Finite(res.Tratio) /\ Le(One, res.Tratio))

\* C4: a field that is a number but not finite makes the request rejected
C4_NonFinite ==
  (Answered /\ \E v \in Fields(req) : NotFinite(v)) => res = InvalidInput

Scenario2 == Body(Num(60), Num(30), Num(5), Num(1000), Dec(15, 100), Num(4))

\* |x - y| <= t
Within(x, y, t) == Finite(x) /\ Finite(y) /\ Le(Abs(Sub(x, y)), t)

\* C5, as stated: scenario 2 is answered with Tratio = 2, q_veh_per_h about
\* 1606.24 (to the 2 decimals it is given with) and N_veh = 1606
C5_Original ==
  (Answered /\ req = Scenario2)
    => /\ res.Tratio = Num(2)
       /\ Within(res.q_veh_per_h, Dec(160624, 100), Dec(5, 1000))
       /\ res.N_veh = Num(1606)

\* C5, amended: scenario 2 is answered with Tratio = 2, q_veh_per_h = 1606.86
\* and N_veh = 1607
C5_Scenario ==
  (Answered /\ req = Scenario2)
    => res = Reply(StatusOk, None, Dec(160686, 100), Num(1607), Num(2), None)

C5_Witness == Answered /\ req = Scenario2 /\ res.status = StatusOk

\* two valid requests with the same Tff_min, qpc, alpha and beta, and
\* Tff_min < T1 < T2 for their T_min: the remembered one has T1
Raised ==
  /\ Pair
  /\ AllFinitePositive(first.req)
  /\ AllFinitePositive(req)
  /\ first.req.Tff_min = req.Tff_min
  /\ first.req.qpc = req.qpc
  /\ first.req.alpha = req.alpha
  /\ first.req.beta = req.beta
  /\ Lt(req.Tff_min, first.req.T_min)
  /\ Lt(first.req.T_min, req.T_min)

Congested(b) == AllFinitePositive(b) /\ Lt(b.Tff_min, b.T_min)

\* C7: the Tratio of a congested request is T_min / Tff_min rounded to 3
\* decimals, and two requests with the same T_min and Tff_min get the same
\* Tratio
C7_Ratio ==
  /\ (Answered /\ Congested(req))
       => res.Tratio = Json(ToFixed(Div(req.T_min, req.Tff_min), 3))
  /\ (Pair /\ Congested(req) /\ Congested(first.req)
        /\ req.T_min = first.req.T_min /\ req.Tff_min = first.req.Tff_min)
       => res.Tratio = first.res.Tratio

Tolerance == Pack(1, BShl(<<1>>, Precision - 1), 0 - 40 - (Precision - 1))

\* Tff_min * (1 + alpha * (q / qpc)^beta)
Bpr(b, q) ==
  Mul(b.Tff_min, Add(One, Mul(b.alpha, Pow(Div(q, b.qpc), b.beta))))

\* C9: for a congested request the flow q before rounding gives T_min back
\* through the BPR function (up to the rounding of doubles), and N_veh is
\* round(q * T_min / 60)
C9_Inverse ==
  (Answered /\ Congested(req))
    => /\ Within(Bpr(req, loc.q), req.T_min, Mul(req.T_min, Tolerance))
       /\ res.N_veh = Json(MathRound(Mul(loc.q, Div(req.T_min, Num(60)))))

\* C10: no request is answered with "Invalid base value, check parameters.",
\* and no base computed is negative
C10_NoNegativeBase ==
  Answered => (res.error # BadBaseMsg /\ ~Negative(loc.base))

\* a base computed for a request that passed the validation with
\* T_min > Tff_min
C10_Witness ==
  /\ Answered
  /\ AllPositive(req)
  /\ Lt(req.Tff_min, req.T_min)
  /\ Finite(loc.base)
  /\ res.status = StatusOk
====
